---- MODULE Spec2Model ----
(***************************************************************************)
(* CondoScout: chat session lifecycle of src/App.tsx (App component) and   *)
(* the Gemini service wrapper that follows it in the same file             *)
(* (startNewChat, resumeChat, sendMessageToGemini).                        *)
(*                                                                         *)
(* A handler reads the state of the last render (the closure it was        *)
(* created in) and queues state updates; a commit applies the queued       *)
(* updates in the order they were queued, and the effects that depend on   *)
(* what changed run after it (the load effect on [user, isGuest], then the *)
(* persist effect on [sessions, user, isGuest]).  A handler of one of the  *)
(* component's own events (a click, the Enter key) is one action: the      *)
(* handler, its commit, which takes along whatever was queued before, and  *)
(* the effects of that commit.  Updates queued outside of any event (by    *)
(* the Google callback, by the load effect, by the continuation of         *)
(* handleSendMessage after its await, action Resolve) wait for a later     *)
(* commit (action Commit), whose effects run in a task of their own        *)
(* (action RunEffects).  HandleSendMessage is the part of                  *)
(* handleSendMessage up to the await (the provider call is started         *)
(* synchronously).                                                         *)
(***************************************************************************)
EXTENDS Integers, Sequences, FiniteSets, TLC

VARIABLES
    user,              \* useState<User|null>: the signed-in user's id, or NoUser
    isGuest,           \* useState(false)
    sessions,          \* useState<ChatSession[]>([])
    currentSessionId,  \* useState<string|null>(null)
    isLoading,         \* useState(false): the global in-flight flag
    chatSession,       \* module-level `let chatSession: Chat | null`
    pending,           \* provider send calls that have not returned yet
    storage,           \* localStorage (per user id) and sessionStorage (guest) session blobs
    queued,            \* state updates queued and not yet committed, oldest first
    effects,           \* the effects of the last commit that have not run yet
    signIns,           \* Google sign-ins the button started, not answered yet
    logins,            \* logins started so far: the saved user restored at the page
                       \* load, and clicks on the two buttons of the login screen
    nextId,            \* number of handler runs that have drawn uuidv4() values, plus one
    ev                 \* the handler that ran last, its argument, and the number of
                       \* sessions and the active id it found (observation only);
                       \* for a service function run on its own, its argument and result

vars == <<user, isGuest, sessions, currentSessionId, isLoading, chatSession,
          pending, storage, queued, effects, signIns, logins, nextId, ev>>

----------------------------------------------------------------------------
(* Bounds of the model *)

\* handler runs that may draw fresh uuidv4() values (a new session, or the two
\* messages of an accepted submission)
MaxFresh == 2
\* largest reading of Date.now()
MaxClock == 1
\* logins started in one behaviour: the saved user restored at the page load,
\* and clicks on the buttons of the login screen (guest, Google)
MaxLogins == 2
\* longest grounding chunk list handed to the normalizer on its own
MaxChunks == 3
\* longest message history handed to resumeChat on its own
MaxHistory == 3

(* Program constants *)

TitleLimit == 30

----------------------------------------------------------------------------
(* Values *)

NoUser == "<no user>"
Null == "<null>"
UserIds == {"u1"}
GuestKey == "condoscout_guest_sessions"
StorageKeys == UserIds \cup {GuestKey}

\* An optional field of a JS object: <<>> is undefined, <<v>> is the value v.
Undefined == <<>>
Some(v) == <<v>>

WelcomeId == "welcome"
\* the UTF-16 code units of the five characters the welcome text starts with
\* (U+00F0 U+0178 U+2018 U+2039, a wave emoji stored mis-encoded, and a space)
WelcomeLead == <<240, 376, 8216, 8249, 32>>
\* the welcome text from its first letter on: the 197 characters that follow
\* WelcomeLead in the source string of 202 (a TLA+ string cannot hold three of
\* the five); no operation of the program reads the text
WelcomeText == "Hello, I'm **Royce**.\n\nI am your personal real estate concierge. I'll help you find condominiums, apartments, or luxury hotels.\n\n*\"Show me some 1-bedroom apartments in Sukhumvit near the station.\"*"
NewSearchTitle == "New Search"
ApologyText == "I apologize, but I am unable to access the property database at this moment. Please try again shortly."
DefaultReplyText == "I've curated a list of properties for you:"
ConnectionErrorText == "Connection error. Please try again."

\* uuidv4(): the j-th value drawn by the n-th handler run that draws any
uuidv4(n, j) == "id" \o ToString(n) \o "-" \o ToString(j)

\* The texts the user may have typed or pasted into the input box, a single-line
\* text input: "hi" stands between a tab and a no-break space (U+00A0).
Inputs == {"", " \t", "\thi "}
\* Texts around the title limit: one of 30 characters between a tab and a space
\* followed by a no-break space, one of 31 characters before a space.
LongInputs == {"\t2-bedroom condo near BTS Asoke  ", "3-bedroom condo near MRT Rama 9 "}

----------------------------------------------------------------------------
(* The clock *)

\* Date.now(): the clock does not run backwards, so a reading is not smaller
\* than any time stamp the program holds, has queued or has stored.  The
\* program only compares time stamps with each other (the sort of
\* parseAndLoadSessions), so the distinct readings are numbered consecutively:
\* a reading is the latest stamp again or the next number.
Stamps(ss) == {ss[i].lastUpdated : i \in 1..Len(ss)} \cup {ss[i].createdAt : i \in 1..Len(ss)}
QueuedStamps(u) ==
    IF u.op = "setSessions" THEN Stamps(u.val)
    ELSE IF u.op = "createNewSession" THEN {u.val.now[1], u.val.now[2]}
    ELSE {}
AllStamps ==
    Stamps(sessions)
        \cup UNION {Stamps(storage[k].val) : k \in StorageKeys}
        \cup UNION {QueuedStamps(queued[i]) : i \in 1..Len(queued)}
Latest == IF AllStamps = {} THEN 0 ELSE CHOOSE t \in AllStamps : \A u \in AllStamps : u <= t
DateNow == {t \in 0..MaxClock : t = Latest \/ t = Latest + 1}
\* two readings in a row (createNewSession: createdAt, then lastUpdated)
DateNowTwice == {<<a, b>> \in DateNow \X (0..MaxClock) : b = a \/ b = a + 1}
\* the readings of a handler that calls createNewSession only on some of its paths
DateNowIf(reads) == IF reads THEN DateNowTwice ELSE {<<Latest, Latest>>}
\* the two readings of a createNewSession that runs after the reading t0
DateNowAfter(t0, reads) ==
    IF reads
    THEN {<<a, b>> \in (0..MaxClock) \X (0..MaxClock) :
             (a = t0 \/ a = t0 + 1) /\ (b = a \/ b = a + 1)}
    ELSE {<<t0, t0>>}

----------------------------------------------------------------------------
(* String helpers: String.prototype.trim *)

\* The characters trim() strips, ECMAScript's WhiteSpace and LineTerminator:
\* space, tab, line feed, carriage return, form feed, then written literally
\* vertical tab (U+000B), no-break space (U+00A0), ogham space mark (U+1680)
\* and zero width no-break space (U+FEFF).  The remaining space separators
\* (U+2000 to U+200A, U+2028, U+2029, U+202F, U+205F, U+3000) cannot be
\* written in a string of this language; no input of the model holds one.
WhiteSpace == {" ", "\t", "\n", "\r", "\f", "", " ", " ", "﻿"}

RECURSIVE TrimStart(_)
TrimStart(s) ==
    IF Len(s) > 0 /\ SubSeq(s, 1, 1) \in WhiteSpace THEN TrimStart(SubSeq(s, 2, Len(s))) ELSE s

RECURSIVE TrimEnd(_)
TrimEnd(s) ==
    IF Len(s) > 0 /\ SubSeq(s, Len(s), Len(s)) \in WhiteSpace
    THEN TrimEnd(SubSeq(s, 1, Len(s) - 1)) ELSE s

Trim(s) == TrimEnd(TrimStart(s))

----------------------------------------------------------------------------
(* Sessions and messages (src/types.ts: Message, ChatSession) *)

SessionIds(ss) == {ss[i].id : i \in 1..Len(ss)}

\* sessions.find(s => s.id === id), where one exists
FindSession(ss, id) ==
    ss[CHOOSE i \in 1..Len(ss) : ss[i].id = id /\ \A j \in 1..(i - 1) : ss[j].id # id]

IsThinking(m) == m.isThinking = Some(TRUE)

\* createNewSession: const welcomeMsg
WelcomeMsg ==
    [id |-> WelcomeId, role |-> "model", text |-> WelcomeText,
     places |-> Some(<<>>), isThinking |-> Undefined]

\* createNewSession: const newSession; t is the two readings of Date.now()
NewSession(newId, t) ==
    [id |-> newId, title |-> NewSearchTitle, messages |-> <<WelcomeMsg>>,
     createdAt |-> t[1], lastUpdated |-> t[2]]

\* handleSendMessage: const userMsg / const thinkingMsg
UserMsg(id, userText) ==
    [id |-> id, role |-> "user", text |-> userText,
     places |-> Undefined, isThinking |-> Undefined]

ThinkingMsg(id) ==
    [id |-> id, role |-> "model", text |-> "",
     places |-> Undefined, isThinking |-> Some(TRUE)]

\* (changed: every turn sets the title, not only the first one of a session)
TitleFor_EveryTurn(session, userText) ==
    IF Len(userText) > TitleLimit
    THEN SubSeq(userText, 1, TitleLimit) \o "..."
    ELSE userText

\* handleSendMessage: the title expression of the first setSessions
TitleFor(session, userText) ==
    IF Len(session.messages) <= 1
    THEN (IF Len(userText) > TitleLimit
          THEN SubSeq(userText, 1, TitleLimit) \o "..."
          ELSE userText)
    ELSE session.title

\* handleSendMessage: lastUpdated of the session a turn is submitted in
SubmitLastUpdated(session, t) == t

\* (changed: the placeholder is appended before the user message)
AppendTurn_PlaceholderFirst(prev, sid, userMsg, thinkingMsg, userText, t) ==
    [i \in 1..Len(prev) |->
        IF prev[i].id = sid
        THEN [prev[i] EXCEPT !.title = TitleFor(prev[i], userText),
                             !.lastUpdated = SubmitLastUpdated(prev[i], t),
                             !.messages = prev[i].messages \o <<thinkingMsg, userMsg>>]
        ELSE prev[i]]

\* handleSendMessage: the updater of the first setSessions
AppendTurn(prev, sid, userMsg, thinkingMsg, userText, t) ==
    [i \in 1..Len(prev) |->
        IF prev[i].id = sid
        THEN [prev[i] EXCEPT !.title = TitleFor(prev[i], userText),
                             !.lastUpdated = SubmitLastUpdated(prev[i], t),
                             !.messages = prev[i].messages \o <<userMsg, thinkingMsg>>]
        ELSE prev[i]]

\* handleSendMessage: session.messages.map(msg => msg.id === thinkingMsgId ? ... : msg)
\* in the try branch (threw = FALSE) and in the catch branch (threw = TRUE)
ResolveMessages(msgs, mid, res) ==
    [k \in 1..Len(msgs) |->
        IF msgs[k].id = mid
        THEN (IF res.threw
              THEN [msgs[k] EXCEPT !.text = ConnectionErrorText, !.isThinking = Some(FALSE)]
              ELSE [msgs[k] EXCEPT !.text = res.text, !.places = Some(res.places),
                                   !.isThinking = Some(FALSE)])
        ELSE msgs[k]]

\* (changed: the result is written to the session active when the call returns)
ResolveTarget_ActiveAtReturn(p) == currentSessionId

\* handleSendMessage: the session the result of a turn is written to: the
\* currentSessionId captured by the closure when the turn was submitted
ResolveTarget(p) == p.sid

\* (changed: completing a turn stamps the session with the time of completion)
ApplyTurnResult_Stamped(prev, p, res) ==
    [i \in 1..Len(prev) |->
        IF prev[i].id = ResolveTarget(p)
        THEN [prev[i] EXCEPT !.messages = ResolveMessages(prev[i].messages, p.mid, res),
                             !.lastUpdated = CHOOSE t \in DateNow : \A u \in DateNow : u <= t]
        ELSE prev[i]]

\* (changed: when the session of the turn is gone, the answer is appended to
\* the active session)
ApplyTurnResult_FallsBackToActive(prev, p, res) ==
    IF \E i \in 1..Len(prev) : prev[i].id = ResolveTarget(p)
    THEN [i \in 1..Len(prev) |->
            IF prev[i].id = ResolveTarget(p)
            THEN [prev[i] EXCEPT !.messages = ResolveMessages(prev[i].messages, p.mid, res)]
            ELSE prev[i]]
    ELSE [i \in 1..Len(prev) |->
            IF prev[i].id = currentSessionId
            THEN [prev[i] EXCEPT !.messages =
                     @ \o ResolveMessages(<<ThinkingMsg(p.mid)>>, p.mid, res)]
            ELSE prev[i]]

\* handleSendMessage: the updater of the second setSessions (try and catch)
ApplyTurnResult(prev, p, res) ==
    [i \in 1..Len(prev) |->
        IF prev[i].id = ResolveTarget(p)
        THEN [prev[i] EXCEPT !.messages = ResolveMessages(prev[i].messages, p.mid, res)]
        ELSE prev[i]]

\* (changed: the flag is cleared in the try branch only, after a provider answer)
LoadingAfterReturn_OnAnswerOnly(res) == res.text = ApologyText

\* handleSendMessage: finally { setIsLoading(false) }
LoadingAfterReturn(res) == FALSE

----------------------------------------------------------------------------
(* Conversation context (geminiService: chatSession, startNewChat, resumeChat) *)

\* let chatSession: Chat | null = null
NoChat == [live |-> FALSE, history |-> <<>>]

\* startNewChat: ai.chats.create without history
startNewChat == [live |-> TRUE, history |-> <<>>]

\* (changed: only the welcome message is filtered out)
RECURSIVE validHistory_KeepsThinking(_)
validHistory_KeepsThinking(history) ==
    IF history = <<>> THEN <<>>
    ELSE (IF Head(history).id # WelcomeId
          THEN <<[role |-> Head(history).role, text |-> Head(history).text]>>
          ELSE <<>>) \o validHistory_KeepsThinking(Tail(history))

\* resumeChat: history.filter(msg => !msg.isThinking && msg.id !== 'welcome')
RECURSIVE validHistory(_)
validHistory(history) ==
    IF history = <<>> THEN <<>>
    ELSE (IF ~IsThinking(Head(history)) /\ Head(history).id # WelcomeId
          THEN <<[role |-> Head(history).role, text |-> Head(history).text]>>
          ELSE <<>>) \o validHistory(Tail(history))

\* resumeChat: ai.chats.create with history: validHistory
resumeChat(history) == [live |-> TRUE, history |-> validHistory(history)]

\* A provider call in flight was made on the Chat object that was live when it
\* was made.  Replacing chatSession leaves that object unreferenced by the
\* module: onLive records whether the call's object is still chatSession.
Detach(calls) == {[p EXCEPT !.onLive = FALSE] : p \in calls}

----------------------------------------------------------------------------
(* Grounding normalizer (sendMessageToGemini, the body of its try block) *)

\* A grounding chunk: maps = <<>> when the chunk has no maps payload; a string
\* field that is absent is "", which `||` and `&&` treat like undefined;
\* snippet is placeAnswerSources?.reviewSnippets?.[0]?.content.
MapsChunk(title, uri, googleMapsUri) ==
    [maps |-> Some([title |-> title, uri |-> uri, googleMapsUri |-> googleMapsUri,
                    placeId |-> Undefined, address |-> Undefined,
                    snippet |-> Undefined])]
WebChunk == [maps |-> Undefined]

\* const uri = mapData.uri || mapData.googleMapsUri || ""
ResolveUri(mapData) == IF mapData.uri # "" THEN mapData.uri ELSE mapData.googleMapsUri

\* (changed: a chunk with a title is kept whether or not it has a uri)
RECURSIVE ExtractPlaces_NoUriCheck(_)
ExtractPlaces_NoUriCheck(chunks) ==
    IF chunks = <<>> THEN <<>>
    ELSE LET chunk == Head(chunks)
             keep == /\ chunk.maps # Undefined
                     /\ chunk.maps[1].title # ""
         IN (IF keep
             THEN <<[title |-> chunk.maps[1].title, uri |-> ResolveUri(chunk.maps[1]),
                     placeId |-> chunk.maps[1].placeId,
                     description |-> chunk.maps[1].snippet,
                     address |-> chunk.maps[1].address]>>
             ELSE <<>>) \o ExtractPlaces_NoUriCheck(Tail(chunks))

\* chunks.forEach(chunk => { if (chunk.maps) { ... places.push(...) } })
RECURSIVE ExtractPlaces(_)
ExtractPlaces(chunks) ==
    IF chunks = <<>> THEN <<>>
    ELSE LET chunk == Head(chunks)
             keep == /\ chunk.maps # Undefined
                     /\ chunk.maps[1].title # ""
                     /\ ResolveUri(chunk.maps[1]) # ""
         IN (IF keep
             THEN <<[title |-> chunk.maps[1].title, uri |-> ResolveUri(chunk.maps[1]),
                     placeId |-> chunk.maps[1].placeId,
                     description |-> chunk.maps[1].snippet,
                     address |-> chunk.maps[1].address]>>
             ELSE <<>>) \o ExtractPlaces(Tail(chunks))

\* a.findIndex(t => t.title === v.title); v is an element of a
FindIndexByTitle(a, title) ==
    CHOOSE i \in 1..Len(a) : a[i].title = title /\ \A j \in 1..(i - 1) : a[j].title # title

\* (changed: of the records with one title the last one is kept)
uniquePlaces_KeepsLast(places) ==
    LET marked == [i \in 1..Len(places) |->
                      [rec |-> places[i],
                       last |-> \A j \in (i + 1)..Len(places) : places[j].title # places[i].title]]
        kept == SelectSeq(marked, LAMBDA x : x.last)
    IN [i \in 1..Len(kept) |-> kept[i].rec]

\* places.filter((v, i, a) => a.findIndex(t => t.title === v.title) === i)
RECURSIVE UniqueFrom(_, _)
UniqueFrom(a, i) ==
    IF i > Len(a) THEN <<>>
    ELSE (IF FindIndexByTitle(a, a[i].title) = i THEN <<a[i]>> ELSE <<>>) \o UniqueFrom(a, i + 1)

uniquePlaces(places) == UniqueFrom(places, 1)

\* What the provider does with a sendMessage call: it answers with a text and
\* grounding chunks, or the call rejects.
ChunkLists ==
    { << MapsChunk("A", "u1", ""), WebChunk, MapsChunk("A", "", "u2"),
         MapsChunk("", "u4", ""), MapsChunk("B", "", "u3"), MapsChunk("C", "", "") >> }

ProviderOutcomes ==
    {[rejects |-> FALSE, text |-> "ok", chunks |-> c] : c \in ChunkLists}
        \cup { [rejects |-> FALSE, text |-> "", chunks |-> <<>>],
               [rejects |-> TRUE, text |-> "", chunks |-> <<>>] }

\* (changed: no catch around the provider call, its rejection reaches the caller)
sendMessageToGemini_Rethrows(p, outcome) ==
    IF p.noChat \/ outcome.rejects
    THEN [threw |-> TRUE, text |-> "", places |-> <<>>]
    ELSE [threw |-> FALSE,
          text |-> IF outcome.text # "" THEN outcome.text ELSE DefaultReplyText,
          places |-> uniquePlaces(ExtractPlaces(outcome.chunks))]

\* sendMessageToGemini: the value its promise settles with.  `threw` is the
\* promise rejecting, which only the statements before its try block can cause
\* (no chat session after startNewChat); a rejecting provider call is caught.
sendMessageToGemini(p, outcome) ==
    IF p.noChat
    THEN [threw |-> TRUE, text |-> "", places |-> <<>>]
    ELSE IF outcome.rejects
    THEN [threw |-> FALSE, text |-> ApologyText, places |-> <<>>]
    ELSE [threw |-> FALSE,
          text |-> IF outcome.text # "" THEN outcome.text ELSE DefaultReplyText,
          places |-> uniquePlaces(ExtractPlaces(outcome.chunks))]

----------------------------------------------------------------------------
(* Persistence (load effect, persist effect, parseAndLoadSessions) *)

\* storage.getItem of a key never written
NullRaw == [kind |-> "null", val |-> <<>>]
\* a stored string that JSON.parse rejects
BadRaw == [kind |-> "bad", val |-> <<>>]
\* JSON.stringify(sessions): plain data, undefined fields are left out and
\* come back undefined
JSONstringify(ss) == [kind |-> "json", val |-> ss]
JSONparseThrows(raw) == raw.kind = "bad"
JSONparse(raw) == raw.val

\* the key of the persist and load effects: user first, then guest
StorageKey(u, g) == IF u # NoUser THEN u ELSE IF g THEN GuestKey ELSE Null

\* (changed: a list that holds a placeholder is not written)
Persist_SkipsThinking(store, u, g, ss) ==
    IF StorageKey(u, g) = Null THEN store
    ELSE IF \E i \in 1..Len(ss) : \E k \in 1..Len(ss[i].messages) : IsThinking(ss[i].messages[k])
    THEN store
    ELSE [store EXCEPT ![StorageKey(u, g)] = JSONstringify(ss)]

\* persist effect: written after every commit in which sessions, user or isGuest changed
Persist(store, u, g, ss) ==
    IF StorageKey(u, g) = Null THEN store
    ELSE [store EXCEPT ![StorageKey(u, g)] = JSONstringify(ss)]

\* parsed.sort((a, b) => b.lastUpdated - a.lastUpdated): stable, in place
RECURSIVE InsertByLastUpdated(_, _)
InsertByLastUpdated(sorted, s) ==
    IF sorted = <<>> THEN <<s>>
    ELSE IF Head(sorted).lastUpdated >= s.lastUpdated
         THEN <<Head(sorted)>> \o InsertByLastUpdated(Tail(sorted), s)
         ELSE <<s>> \o sorted

RECURSIVE SortByLastUpdated(_)
SortByLastUpdated(parsed) ==
    IF parsed = <<>> THEN <<>>
    ELSE InsertByLastUpdated(SortByLastUpdated(SubSeq(parsed, 1, Len(parsed) - 1)),
                             parsed[Len(parsed)])

\* (changed: the new session is put after the existing ones)
createNewSession_Appends(prev, newId, t) ==
    [sessions |-> prev \o <<NewSession(newId, t)>>,
     currentSessionId |-> newId,
     chatSession |-> startNewChat]

\* createNewSession: setSessions(prev => [newSession, ...prev]);
\* setCurrentSessionId(newId); startNewChat()
createNewSession(prev, newId, t) ==
    [sessions |-> <<NewSession(newId, t)>> \o prev,
     currentSessionId |-> newId,
     chatSession |-> startNewChat]

\* (changed: the catch block of JSON.parse does not create a session)
parseAndLoadSessions_EmptyCatch(raw, newId, t) ==
    LET fresh == [set |-> Undefined, create |-> Some([newId |-> newId, now |-> t]),
                  currentSessionId |-> newId, chatSession |-> startNewChat,
                  usedId |-> TRUE]
    IN IF raw.kind = "null" THEN fresh
       ELSE IF JSONparseThrows(raw)
       THEN [set |-> Undefined, create |-> Undefined, currentSessionId |-> currentSessionId,
             chatSession |-> chatSession, usedId |-> FALSE]
       ELSE LET parsed == JSONparse(raw)
                sorted == SortByLastUpdated(parsed)
            IN IF Len(parsed) > 0
               THEN [set |-> Some(sorted), create |-> Undefined,
                     currentSessionId |-> sorted[1].id,
                     chatSession |-> resumeChat(sorted[1].messages),
                     usedId |-> FALSE]
               ELSE [fresh EXCEPT !.set = Some(parsed)]

\* (changed: the first stored session is taken as the most recent one, unsorted)
parseAndLoadSessions_NoSort(raw, newId, t) ==
    LET fresh == [set |-> Undefined, create |-> Some([newId |-> newId, now |-> t]),
                  currentSessionId |-> newId, chatSession |-> startNewChat,
                  usedId |-> TRUE]
    IN IF raw.kind = "null" THEN fresh
       ELSE IF JSONparseThrows(raw) THEN fresh
       ELSE LET parsed == JSONparse(raw)
            IN IF Len(parsed) > 0
               THEN [set |-> Some(parsed), create |-> Undefined,
                     currentSessionId |-> parsed[1].id,
                     chatSession |-> resumeChat(parsed[1].messages),
                     usedId |-> FALSE]
               ELSE [fresh EXCEPT !.set = Some(parsed)]

\* (changed: the default session is created without a chat session)
parseAndLoadSessions_NoContext(raw, newId, t) ==
    LET fresh == [set |-> Undefined, create |-> Some([newId |-> newId, now |-> t]),
                  currentSessionId |-> newId, chatSession |-> chatSession,
                  usedId |-> TRUE]
    IN IF raw.kind = "null" THEN fresh
       ELSE IF JSONparseThrows(raw) THEN fresh
       ELSE LET parsed == JSONparse(raw)
                sorted == SortByLastUpdated(parsed)
            IN IF Len(parsed) > 0
               THEN [set |-> Some(sorted), create |-> Undefined,
                     currentSessionId |-> sorted[1].id,
                     chatSession |-> resumeChat(sorted[1].messages),
                     usedId |-> FALSE]
               ELSE [fresh EXCEPT !.set = Some(parsed)]

\* parseAndLoadSessions(jsonString), called by the load effect: the updates it
\* queues (set: setSessions(parsed); create: the call of createNewSession;
\* setCurrentSessionId) and the chat session it installs at once
parseAndLoadSessions(raw, newId, t) ==
    LET fresh == [set |-> Undefined, create |-> Some([newId |-> newId, now |-> t]),
                  currentSessionId |-> newId, chatSession |-> startNewChat,
                  usedId |-> TRUE]
    IN IF raw.kind = "null" THEN fresh
       ELSE IF JSONparseThrows(raw) THEN fresh
       ELSE LET parsed == JSONparse(raw)
                sorted == SortByLastUpdated(parsed)
            IN IF Len(parsed) > 0
               THEN [set |-> Some(sorted), create |-> Undefined,
                     currentSessionId |-> sorted[1].id,
                     chatSession |-> resumeChat(sorted[1].messages),
                     usedId |-> FALSE]
               ELSE [fresh EXCEPT !.set = Some(parsed)]

\* (changed: the fallback selects the fallback session without resuming its context)
deleteSession_NoResume(prev, cur, chat, id, newId, t) ==
    LET newSessions == SelectSeq(prev, LAMBDA x : x.id # id)
    IN IF cur = id
       THEN IF Len(newSessions) > 0
            THEN [sessions |-> newSessions,
                  currentSessionId |-> newSessions[1].id,
                  chatSession |-> chat,
                  replaced |-> FALSE, usedId |-> FALSE]
            ELSE LET c == createNewSession(newSessions, newId, t)
                 IN [sessions |-> c.sessions,
                     currentSessionId |-> c.currentSessionId,
                     chatSession |-> c.chatSession,
                     replaced |-> TRUE, usedId |-> TRUE]
       ELSE [sessions |-> newSessions, currentSessionId |-> cur,
             chatSession |-> chat, replaced |-> FALSE, usedId |-> FALSE]

\* deleteSession(e, id)
deleteSession(prev, cur, chat, id, newId, t) ==
    LET newSessions == SelectSeq(prev, LAMBDA x : x.id # id)
    IN IF cur = id
       THEN IF Len(newSessions) > 0
            THEN [sessions |-> newSessions,
                  currentSessionId |-> newSessions[1].id,
                  chatSession |-> resumeChat(newSessions[1].messages),
                  replaced |-> TRUE, usedId |-> FALSE]
            ELSE LET c == createNewSession(newSessions, newId, t)
                 IN [sessions |-> c.sessions,
                     currentSessionId |-> c.currentSessionId,
                     chatSession |-> c.chatSession,
                     replaced |-> TRUE, usedId |-> TRUE]
       ELSE [sessions |-> newSessions, currentSessionId |-> cur,
             chatSession |-> chat, replaced |-> FALSE, usedId |-> FALSE]

\* (changed: the guard does not test isLoading)
SendRejected_NoFlightFlag(inputText, loading, cur) ==
    Trim(inputText) = "" \/ cur = Null

\* handleSendMessage: if (!inputText.trim() || isLoading || !currentSessionId) return
SendRejected(inputText, loading, cur) ==
    Trim(inputText) = "" \/ loading \/ cur = Null

----------------------------------------------------------------------------
(* The state machine *)

\* the values of the last render, which the closures of its handlers hold
Rendered ==
    [user |-> user, isGuest |-> isGuest, sessions |-> sessions,
     currentSessionId |-> currentSessionId, isLoading |-> isLoading]

\* a queued state update: the setter called (op) with its argument (val), and
\* the handler that called it (by).  The updates of the load effect carry the
\* identity and the stored blob the effect read (src).
Upd(by, op, val) == [by |-> by, op |-> op, val |-> val, src |-> Undefined]
LoadUpd(op, val, src) == [by |-> "load", op |-> op, val |-> val, src |-> Some(src)]

\* one queued update applied to the state it finds; t is the reading of
\* Date.now() in the updater of handleSendMessage, which runs at the commit
ApplyUpdate(st, u, t) ==
    CASE u.op = "setUser" -> [st EXCEPT !.user = u.val]
      [] u.op = "setIsGuest" -> [st EXCEPT !.isGuest = u.val]
      [] u.op = "setSessions" -> [st EXCEPT !.sessions = u.val]
      [] u.op = "createNewSession" ->
            LET r == createNewSession(st.sessions, u.val.newId, u.val.now)
            IN [st EXCEPT !.sessions = r.sessions, !.currentSessionId = r.currentSessionId]
      [] u.op = "appendTurn" ->
            [st EXCEPT !.sessions = AppendTurn(st.sessions, u.val.sid, u.val.userMsg,
                                               u.val.thinkingMsg, u.val.userText, t)]
      [] u.op = "applyTurnResult" ->
            [st EXCEPT !.sessions = ApplyTurnResult(st.sessions, u.val.p, u.val.res)]
      [] u.op = "setCurrentSessionId" -> [st EXCEPT !.currentSessionId = u.val]
      [] u.op = "setIsLoading" -> [st EXCEPT !.isLoading = u.val]
      [] u.op = "setIsSidebarOpen" -> st

\* the queue applied in the order the updates were queued
RECURSIVE ApplyUpdates(_, _, _)
ApplyUpdates(st, q, t) ==
    IF q = <<>> THEN st ELSE ApplyUpdates(ApplyUpdate(st, Head(q), t), Tail(q), t)

\* the dependencies [user, isGuest] of the load effect changed: user is a new
\* object after any setUser(newUser)
LoadRuns(q, st) ==
    \/ st.user # user
    \/ st.isGuest # isGuest
    \/ st.user # NoUser /\ \E i \in 1..Len(q) : q[i].op = "setUser"

\* the dependencies [sessions, user, isGuest] of the persist effect changed:
\* sessions is a new array after any update of it
PersistRuns(q, st) ==
    \/ \E i \in 1..Len(q) :
          q[i].op \in {"setSessions", "createNewSession", "appendTurn", "applyTurnResult"}
    \/ LoadRuns(q, st)

\* The passive effects (useEffect) of a commit: the load effect runs when
\* its dependencies [user, isGuest] changed, the persist effect when
\* [sessions, user, isGuest] did
NoEffects == [load |-> FALSE, persist |-> FALSE]
EffectsOf(q, st) == [load |-> LoadRuns(q, st), persist |-> PersistRuns(q, st)]

\* the updates parseAndLoadSessions queues
PlanUpdates(plan, src) ==
    (IF plan.set = Undefined THEN <<>> ELSE <<LoadUpd("setSessions", plan.set[1], src)>>)
        \o (IF plan.create = Undefined THEN <<>>
            ELSE <<LoadUpd("createNewSession", plan.create[1], src)>>)
        \o <<LoadUpd("setCurrentSessionId", plan.currentSessionId, src)>>

\* what a step is observed to have done: the handler, its argument, the
\* updates its commit applied, and, when the load effect ran in that commit,
\* the identity and the blob it read
Event(op, arg, applied, loaded) ==
    [op |-> op, arg |-> arg, n |-> Len(sessions), cur |-> currentSessionId,
     applied |-> applied, loaded |-> loaded]

LoggedIn == user # NoUser \/ isGuest

\* localStorage may hold anything under a user's key when the page is opened:
\* nothing, a damaged string, or the list an earlier visit persisted: an empty
\* one, or one with two sessions, the first never used, the second with a
\* completed turn that was submitted after the first was created and whose
\* text was longer than the title limit; sessionStorage starts empty in a new
\* tab
EarlierText == "3-bedroom condo near MRT Rama 9"
EarlierSessions ==
    << NewSession("s0", <<0, 0>>),
       [NewSession("s1", <<0, 0>>) EXCEPT
            !.title = TitleFor(NewSession("s1", <<0, 0>>), EarlierText),
            !.lastUpdated = 1,
            !.messages = << WelcomeMsg, UserMsg("m1", EarlierText),
                            [ThinkingMsg("m2") EXCEPT !.text = "ok", !.places = Some(<<>>),
                                                      !.isThinking = Some(FALSE)] >>] >>
InitBlobs == {NullRaw, BadRaw, JSONstringify(<<>>), JSONstringify(EarlierSessions)}

\* the mount effect ("Initial load"): when localStorage holds
\* 'condoscout_user' it queues setUser(saved user) and setIsGuest(false)
InitialLoad(savedUser) ==
    IF savedUser = NoUser
    THEN <<>>
    ELSE << Upd("initialLoad", "setUser", savedUser),
            Upd("initialLoad", "setIsGuest", FALSE) >>

\* the page is loaded in a new tab and the effects of the first render ran
Init ==
    /\ user = NoUser
    /\ isGuest = FALSE
    /\ sessions = <<>>
    /\ currentSessionId = Null
    /\ isLoading = FALSE
    /\ chatSession = NoChat
    /\ pending = {}
    /\ storage \in {f \in [StorageKeys -> InitBlobs] : f[GuestKey] = NullRaw}
    /\ \E savedUser \in {NoUser} \cup UserIds :
          /\ queued = InitialLoad(savedUser)
          /\ logins = IF savedUser = NoUser THEN 0 ELSE 1
    /\ effects = NoEffects
    /\ signIns = 0
    /\ nextId = 1
    /\ ev = [op |-> "init", arg |-> "", n |-> 0, cur |-> Null, applied |-> <<>>,
            loaded |-> Undefined]

\* the load effect of eff will create a session: it draws an id and reads the
\* clock
LoadDraws(eff, st, store) ==
    /\ eff.load
    /\ StorageKey(st.user, st.isGuest) # Null
    /\ parseAndLoadSessions(store[StorageKey(st.user, st.isGuest)], "", <<0, 0>>).usedId

\* The effects eff of the render st run, in the order of their declaration.
\* The load effect, when an identity is selected, reads the blob stored for
\* it and runs parseAndLoadSessions, which replaces the chat session at once,
\* uses newId and the clock readings now for a session it creates, and queues
\* its updates; the persist effect then writes the sessions of the render st.
\* chat and pend are the chat session and the provider calls in flight the
\* effects find.
PassiveEffects(eff, st, store, chat, pend, newId, now) ==
    LET who == StorageKey(st.user, st.isGuest)
        loads == eff.load /\ who # Null
        src == [who |-> who, raw |-> store[who]]
        plan == parseAndLoadSessions(src.raw, newId, now)
    IN [storage |-> IF eff.persist THEN Persist(store, st.user, st.isGuest, st.sessions)
                    ELSE store,
        chatSession |-> IF loads THEN plan.chatSession ELSE chat,
        pending |-> IF loads THEN Detach(pend) ELSE pend,
        queued |-> IF loads THEN PlanUpdates(plan, src) ELSE <<>>,
        usedId |-> loads /\ plan.usedId,
        loaded |-> IF loads THEN Some(src) ELSE Undefined]

\* The commit of a handler of an event of the component (a click, a key):
\* React renders and commits before the event ends.  The body of the handler
\* has run on the values of the last render: updates are what it queued, chat
\* and pend the chat session and the provider calls in flight it left, j the
\* number of ids it drew, t0 its last reading of the clock; inRender says that
\* an updater it queued reads Date.now() when the render runs it (the first
\* setSessions of handleSendMessage).  Effects of an earlier commit that have
\* not run yet run first, on the values of the last render.  Then the render
\* applies the updates that were queued, those of the handler and those the
\* load effect just queued, in that order, and the effects of this commit run
\* before the event ends; what its load effect queues stays queued.
Committed(op, arg, updates, t0, inRender, chat, pend, j) ==
    \E now1 \in DateNowAfter(t0, LoadDraws(effects, Rendered, storage)) :
    \E e1 \in {PassiveEffects(effects, Rendered, storage, chat, pend,
                              uuidv4(nextId, j + 1), now1)} :
    \E q \in {queued \o updates \o e1.queued} :
    \E t \in IF inRender
             THEN {u \in 0..MaxClock : u = now1[2] \/ u = now1[2] + 1}
             ELSE {now1[2]} :
    \E st1 \in {ApplyUpdates(Rendered, q, t)} :
    \E eff \in {EffectsOf(q, st1)} :
    \E now2 \in DateNowAfter(t, LoadDraws(eff, st1, e1.storage)) :
    \E e2 \in {PassiveEffects(eff, st1, e1.storage, e1.chatSession, e1.pending,
                              uuidv4(nextId, j + 1 + (IF e1.usedId THEN 1 ELSE 0)), now2)} :
    \E draws \in {j > 0 \/ e1.usedId \/ e2.usedId} :
       /\ draws => nextId <= MaxFresh
       /\ user' = st1.user
       /\ isGuest' = st1.isGuest
       /\ sessions' = st1.sessions
       /\ currentSessionId' = st1.currentSessionId
       /\ isLoading' = st1.isLoading
       /\ storage' = e2.storage
       /\ chatSession' = e2.chatSession
       /\ pending' = e2.pending
       /\ queued' = e2.queued
       /\ effects' = NoEffects
       /\ signIns' = signIns
       /\ logins' = logins + (IF op = "handleGuestLogin" THEN 1 ELSE 0)
       /\ nextId' = IF draws THEN nextId + 1 ELSE nextId
       /\ ev' = Event(op, arg, q, IF e2.loaded # Undefined THEN e2.loaded ELSE e1.loaded)

\* The Google button, which the button effect renders while no identity is
\* selected: a click on it starts a sign-in in the Google library, outside of
\* the component
ClickGoogleButton ==
    /\ ~LoggedIn
    /\ logins < MaxLogins
    /\ signIns' = signIns + 1
    /\ logins' = logins + 1
    /\ ev' = Event("googleButton", "", <<>>, Undefined)
    /\ UNCHANGED <<user, isGuest, sessions, currentSessionId, isLoading, chatSession,
                   pending, storage, queued, effects, nextId>>

\* handleCredentialResponse, the callback the Google library calls when a
\* sign-in is answered: it is not a handler of an event of the component, so
\* setUser(newUser) and setIsGuest(false) stay queued when it returns, and
\* nothing else changes until a commit.  A delivery whose load will draw an
\* id is taken while the model has ids left.
HandleCredentialResponse(who) ==
    /\ signIns > 0
    /\ parseAndLoadSessions(storage[who], "", <<0, 0>>).usedId => nextId <= MaxFresh
    /\ queued' = queued \o << Upd("handleCredentialResponse", "setUser", who),
                              Upd("handleCredentialResponse", "setIsGuest", FALSE) >>
    /\ signIns' = signIns - 1
    /\ ev' = Event("handleCredentialResponse", who, <<>>, Undefined)
    /\ UNCHANGED <<user, isGuest, sessions, currentSessionId, isLoading, chatSession,
                   pending, storage, effects, logins, nextId>>

\* handleGuestLogin, the button of the login screen, with its commit
HandleGuestLogin ==
    /\ ~LoggedIn
    /\ logins < MaxLogins
    /\ Committed("handleGuestLogin", GuestKey,
                 << Upd("handleGuestLogin", "setIsGuest", TRUE),
                    Upd("handleGuestLogin", "setUser", NoUser) >>,
                 Latest, FALSE, chatSession, pending, 0)

\* A commit of updates that were queued outside of the component's events (by
\* the Google callback, after the await of handleSendMessage, by the load
\* effect): the updates are applied in order; the effects of this commit are
\* left to run in a later task.  Effects still waiting run before a render
\* begins.
Commit ==
    /\ queued # <<>>
    /\ effects = NoEffects
    /\ \E st1 \in {ApplyUpdates(Rendered, queued, Latest)} :
          /\ user' = st1.user
          /\ isGuest' = st1.isGuest
          /\ sessions' = st1.sessions
          /\ currentSessionId' = st1.currentSessionId
          /\ isLoading' = st1.isLoading
          /\ effects' = EffectsOf(queued, st1)
          /\ queued' = <<>>
          /\ ev' = Event("commit", "", queued, Undefined)
          /\ UNCHANGED <<storage, chatSession, pending, signIns, logins, nextId>>

\* the task in which the effects of the last commit run
RunEffects ==
    /\ effects # NoEffects
    /\ \E now \in DateNowAfter(Latest, LoadDraws(effects, Rendered, storage)) :
       \E e \in {PassiveEffects(effects, Rendered, storage, chatSession, pending,
                                uuidv4(nextId, 1), now)} :
          /\ e.usedId => nextId <= MaxFresh
          /\ storage' = e.storage
          /\ chatSession' = e.chatSession
          /\ pending' = e.pending
          /\ queued' = queued \o e.queued
          /\ effects' = NoEffects
          /\ nextId' = IF e.usedId THEN nextId + 1 ELSE nextId
          /\ ev' = Event("effects", "", <<>>, e.loaded)
          /\ UNCHANGED <<user, isGuest, sessions, currentSessionId, isLoading, signIns, logins>>

\* onNewChat = createNewSession
CreateNewSession ==
    /\ LoggedIn
    /\ \E now \in DateNowTwice :
       LET newId == uuidv4(nextId, 1)
           updates == <<Upd("createNewSession", "createNewSession",
                            [newId |-> newId, now |-> now])>>
       IN Committed("createNewSession", "", updates, now[2], FALSE,
                    createNewSession(sessions, newId, now).chatSession,
                    Detach(pending), 1)

\* an id the sidebar does not list
StaleId == uuidv4(0, 1)

\* (changed: selecting a session sets the active id and leaves the context)
SelectSession_NoResume(id) ==
    /\ LoggedIn
    /\ IF id \in SessionIds(sessions)
       THEN Committed("onSelectSession", id,
                      <<Upd("onSelectSession", "setCurrentSessionId", id)>>,
                      Latest, FALSE, chatSession, pending, 0)
       ELSE \E isMobile \in BOOLEAN :
            IF isMobile
            THEN Committed("onSelectSession", id,
                           <<Upd("onSelectSession", "setIsSidebarOpen", FALSE)>>,
                           Latest, FALSE, chatSession, pending, 0)
            ELSE /\ ev' = Event("onSelectSession", id, <<>>, Undefined)
                 /\ UNCHANGED <<user, isGuest, sessions, currentSessionId, isLoading,
                                chatSession, pending, storage, queued, effects, signIns,
                                logins, nextId>>

\* onSelectSession(id): the session is looked up in the sessions of the last
\* render.  An id that is not there sets no active id and leaves the context;
\* on a narrow window (isMobile) the handler still closes the sidebar, which
\* is open when a row is clicked there, so the click ends in a render that
\* applies what was queued and runs the effects; on a wide window it queues
\* nothing.  For an id that is listed the click renders on any window, and
\* closing the sidebar changes nothing that is modelled.
SelectSession(id) ==
    /\ LoggedIn
    /\ IF id \in SessionIds(sessions)
       THEN Committed("onSelectSession", id,
                      <<Upd("onSelectSession", "setCurrentSessionId", id)>>,
                      Latest, FALSE,
                      resumeChat(FindSession(sessions, id).messages),
                      Detach(pending), 0)
       ELSE \E isMobile \in BOOLEAN :
            IF isMobile
            THEN Committed("onSelectSession", id,
                           <<Upd("onSelectSession", "setIsSidebarOpen", FALSE)>>,
                           Latest, FALSE, chatSession, pending, 0)
            ELSE /\ ev' = Event("onSelectSession", id, <<>>, Undefined)
                 /\ UNCHANGED <<user, isGuest, sessions, currentSessionId, isLoading,
                                chatSession, pending, storage, queued, effects, signIns,
                                logins, nextId>>

\* onDeleteSession = deleteSession: newSessions is computed from the sessions
\* of the last render and set as a value
DeleteSession(id) ==
    /\ LoggedIn
    /\ \E now \in DateNowIf(deleteSession(sessions, currentSessionId, chatSession,
                                          id, "", <<0, 0>>).usedId) :
       LET r == deleteSession(sessions, currentSessionId, chatSession, id,
                              uuidv4(nextId, 1), now)
           updates == <<Upd("deleteSession", "setSessions", r.sessions)>>
                        \o (IF r.currentSessionId # currentSessionId
                            THEN <<Upd("deleteSession", "setCurrentSessionId",
                                       r.currentSessionId)>>
                            ELSE <<>>)
       IN Committed("deleteSession", id, updates, now[2], FALSE, r.chatSession,
                    IF r.replaced THEN Detach(pending) ELSE pending,
                    IF r.usedId THEN 1 ELSE 0)

\* (changed: logout empties the list and leaves the identity selected)
LogoutUpdates_KeepsIdentity ==
    << Upd("handleLogout", "setSessions", <<>>),
       Upd("handleLogout", "setCurrentSessionId", Null) >>

\* the updates handleLogout queues
LogoutUpdates ==
    << Upd("handleLogout", "setUser", NoUser), Upd("handleLogout", "setIsGuest", FALSE),
       Upd("handleLogout", "setSessions", <<>>),
       Upd("handleLogout", "setCurrentSessionId", Null) >>

\* handleLogout; the load and persist effects of its commit find no identity
HandleLogout ==
    /\ LoggedIn
    /\ Committed("handleLogout", "", LogoutUpdates, Latest, FALSE,
                 chatSession, pending, 0)

\* handleSendMessage up to its await: the guard, the first setSessions,
\* setIsLoading(true) and the start of sendMessageToGemini (its implicit
\* startNewChat and the provider call on the live chat session); the updater
\* of the first setSessions reads Date.now() when the render runs it, after
\* the effects that still waited.  The form is rendered with the main screen,
\* which needs an identity
HandleSendMessage(inputText) ==
    /\ LoggedIn
    /\ IF SendRejected(inputText, isLoading, currentSessionId)
       THEN /\ ev' = Event("handleSendMessage", inputText, <<>>, Undefined)
            /\ UNCHANGED <<user, isGuest, sessions, currentSessionId, isLoading,
                           chatSession, pending, storage, queued, effects, signIns, logins, nextId>>
       ELSE LET userText == Trim(inputText)
                userMsg == UserMsg(uuidv4(nextId, 1), userText)
                thinkingMsg == ThinkingMsg(uuidv4(nextId, 2))
                chat == IF chatSession.live THEN chatSession ELSE startNewChat
                updates == << Upd("handleSendMessage", "appendTurn",
                                  [sid |-> currentSessionId, userMsg |-> userMsg,
                                   thinkingMsg |-> thinkingMsg, userText |-> userText]),
                              Upd("handleSendMessage", "setIsLoading", TRUE) >>
            IN Committed("handleSendMessage", inputText, updates, Latest, TRUE, chat,
                         pending \cup
                           {[sid |-> currentSessionId, mid |-> thinkingMsg.id,
                             text |-> userText, onLive |-> TRUE, noChat |-> ~chat.live]},
                         2)

\* the Chat object of a call records the turn when the provider answers
RecordTurn(chat, p, outcome) ==
    IF p.onLive /\ ~outcome.rejects
    THEN [chat EXCEPT !.history = @ \o <<[role |-> "user", text |-> p.text],
                                         [role |-> "model", text |-> outcome.text]>>]
    ELSE chat

\* handleSendMessage after its await: the provider call of turn p returns;
\* the second setSessions (try or catch) and the setIsLoading of finally are
\* queued, outside of any event of the component
Resolve(p, outcome) ==
    /\ p \in pending
    /\ LET res == sendMessageToGemini(p, outcome)
       IN queued' = queued \o
             << Upd("resolve", "applyTurnResult",
                    [p |-> [sid |-> p.sid, mid |-> p.mid], res |-> res]),
                Upd("resolve", "setIsLoading", LoadingAfterReturn(res)) >>
    /\ chatSession' = RecordTurn(chatSession, p, outcome)
    /\ pending' = pending \ {p}
    /\ ev' = Event("resolve", [sid |-> p.sid, mid |-> p.mid, rejects |-> outcome.rejects,
                               chunks |-> outcome.chunks], <<>>, Undefined)
    /\ UNCHANGED <<user, isGuest, sessions, currentSessionId, isLoading, storage, effects,
                   signIns, logins, nextId>>

Next ==
    \/ ClickGoogleButton
    \/ \E who \in UserIds : HandleCredentialResponse(who)
    \/ HandleGuestLogin
    \/ Commit
    \/ RunEffects
    \/ CreateNewSession
    \/ \E id \in SessionIds(sessions) \cup {StaleId} : SelectSession(id)
    \/ \E id \in SessionIds(sessions) : DeleteSession(id)
    \/ HandleLogout
    \/ \E inputText \in Inputs : HandleSendMessage(inputText)
    \/ \E p \in pending, outcome \in ProviderOutcomes : Resolve(p, outcome)

Spec == Init /\ [][Next]_vars

\* The same program after a reload of the page in a tab in which the guest had
\* a conversation: sessionStorage holds the guest's session with its completed
\* turn, localStorage the two sessions of the user's earlier visit.
GuestText == "hi"
GuestSessions ==
    << [NewSession("g0", <<0, 0>>) EXCEPT
            !.title = TitleFor(NewSession("g0", <<0, 0>>), GuestText),
            !.lastUpdated = 1,
            !.messages = << WelcomeMsg, UserMsg("m3", GuestText),
                            [ThinkingMsg("m4") EXCEPT !.text = "ok", !.places = Some(<<>>),
                                                      !.isThinking = Some(FALSE)] >>] >>
ReloadInit ==
    /\ user = NoUser
    /\ isGuest = FALSE
    /\ sessions = <<>>
    /\ currentSessionId = Null
    /\ isLoading = FALSE
    /\ chatSession = NoChat
    /\ pending = {}
    /\ storage = [k \in StorageKeys |->
                    IF k = GuestKey THEN JSONstringify(GuestSessions)
                    ELSE JSONstringify(EarlierSessions)]
    /\ queued = <<>>
    /\ effects = NoEffects
    /\ signIns = 0
    /\ logins = 0
    /\ nextId = 1
    /\ ev = [op |-> "init", arg |-> "", n |-> 0, cur |-> Null, applied |-> <<>>,
            loaded |-> Undefined]

ReloadSpec == ReloadInit /\ [][Next]_vars

\* The same program for a visitor who stays a guest (the Google button is
\* never clicked), after a reload of the page in a tab in which the guest had
\* a conversation.  React commits the updates that are queued and runs the
\* effects that wait, and the client library settles every provider call,
\* whatever the user does in between.
FairNext ==
    \/ HandleGuestLogin
    \/ Commit
    \/ RunEffects
    \/ CreateNewSession
    \/ \E id \in SessionIds(sessions) \cup {StaleId} : SelectSession(id)
    \/ \E id \in SessionIds(sessions) : DeleteSession(id)
    \/ HandleLogout
    \/ \E inputText \in Inputs : HandleSendMessage(inputText)
    \/ \E p \in pending, outcome \in ProviderOutcomes : Resolve(p, outcome)

FairSpec ==
    /\ ReloadInit /\ [][FairNext]_vars
    /\ WF_vars(Commit)
    /\ WF_vars(RunEffects)
    /\ SF_vars(\E p \in pending, outcome \in ProviderOutcomes : Resolve(p, outcome))

\* The same program with the user typing texts around the title limit, and
\* the provider call of every turn rejecting.
TitleNext ==
    \/ ClickGoogleButton
    \/ \E who \in UserIds : HandleCredentialResponse(who)
    \/ HandleGuestLogin
    \/ Commit
    \/ RunEffects
    \/ CreateNewSession
    \/ \E id \in SessionIds(sessions) : SelectSession(id)
    \/ \E id \in SessionIds(sessions) : DeleteSession(id)
    \/ HandleLogout
    \/ \E inputText \in LongInputs \cup {"\thi "} : HandleSendMessage(inputText)
    \/ \E p \in pending, outcome \in {o \in ProviderOutcomes : o.rejects} : Resolve(p, outcome)

TitleSpec == Init /\ [][TitleNext]_vars

----------------------------------------------------------------------------
(* The service functions on their own *)

\* all sequences over S of at most n elements
RECURSIVE SeqsUpTo(_, _)
SeqsUpTo(S, n) ==
    IF n = 0 THEN {<<>>}
    ELSE LET shorter == SeqsUpTo(S, n - 1)
         IN shorter \cup {Append(q, x) : q \in {r \in shorter : Len(r) = n - 1}, x \in S}

\* Grounding chunks a result may carry: with a uri, with only a googleMapsUri,
\* with both, with neither, without a title, without a maps payload.
ChunkAlphabet ==
    { MapsChunk("A", "u1", ""), MapsChunk("A", "u2", ""), MapsChunk("A", "", "g1"),
      MapsChunk("a", "u1", ""), MapsChunk("B", "u3", ""), MapsChunk("B", "u2", "g1"),
      MapsChunk("", "u1", "g1"), MapsChunk("A", "", ""), MapsChunk("", "", ""),
      WebChunk }

\* the state before any login, with nothing stored
Blank ==
    /\ user = NoUser
    /\ isGuest = FALSE
    /\ sessions = <<>>
    /\ currentSessionId = Null
    /\ isLoading = FALSE
    /\ pending = {}
    /\ storage = [k \in StorageKeys |-> NullRaw]
    /\ queued = <<>>
    /\ effects = NoEffects
    /\ signIns = 0
    /\ logins = 0
    /\ nextId = 1

\* sendMessageToGemini("q") is called on a live chat session and the provider
\* answers with the text "ok" and a list of grounding chunks
NormalizerInit ==
    /\ Blank
    /\ chatSession = startNewChat
    /\ \E chunks \in SeqsUpTo(ChunkAlphabet, MaxChunks) :
          ev = [op |-> "call", arg |-> chunks]

Normalize ==
    /\ ev.op = "call"
    /\ ev' = [op |-> "return", arg |-> ev.arg,
              ret |-> sendMessageToGemini([noChat |-> ~chatSession.live],
                                          [rejects |-> FALSE, text |-> "ok", chunks |-> ev.arg])]
    /\ chatSession' = RecordTurn(chatSession, [onLive |-> TRUE, text |-> "q"],
                                [rejects |-> FALSE, text |-> "ok", chunks |-> ev.arg])
    /\ UNCHANGED <<user, isGuest, sessions, currentSessionId, isLoading,
                   pending, storage, queued, effects, signIns, logins, nextId>>

NormalizerSpec == NormalizerInit /\ [][Normalize]_vars

\* Messages a session may hold: the welcome message, user messages, a
\* placeholder, resolved placeholders (isThinking false), and a message that
\* is a placeholder with the id of the welcome message.
MessageAlphabet ==
    { WelcomeMsg,
      UserMsg("m1", "hi"),
      UserMsg("m3", "more"),
      ThinkingMsg("m2"),
      [ThinkingMsg("m2") EXCEPT !.text = "ok", !.places = Some(<<>>), !.isThinking = Some(FALSE)],
      [ThinkingMsg("m4") EXCEPT !.text = ApologyText, !.places = Some(<<>>), !.isThinking = Some(FALSE)],
      [ThinkingMsg(WelcomeId) EXCEPT !.text = "ok"] }

\* resumeChat is called with the messages of a session
ResumeInit ==
    /\ Blank
    /\ chatSession = NoChat
    /\ \E history \in SeqsUpTo(MessageAlphabet, MaxHistory) :
          ev = [op |-> "call", arg |-> history]

Resume ==
    /\ ev.op = "call"
    /\ chatSession' = resumeChat(ev.arg)
    /\ pending' = Detach(pending)
    /\ ev' = [op |-> "return", arg |-> ev.arg]
    /\ UNCHANGED <<user, isGuest, sessions, currentSessionId, isLoading,
                   storage, queued, effects, signIns, logins, nextId>>

ResumeSpec == ResumeInit /\ [][Resume]_vars

----------------------------------------------------------------------------------------------------------------------------------------
(* Properties *)

\* the handlers whose updates a step committed
Tags(e) == {e.applied[i].by : i \in 1..Len(e.applied)}

\* the turn results a step committed
Results(e) == {e.applied[i].val : i \in {k \in 1..Len(e.applied) : e.applied[k].op = "applyTurnResult"}}

\* a step that committed only the updates of the handler it ran
Own(e, handler) ==
    e.op = handler /\ Tags(e) \subseteq {handler}

\* the updates of the load effect among those a step committed
Loads(e) == {i \in 1..Len(e.applied) : e.applied[i].by = "load"}

\* a step that committed the updates of one run of the load effect and, at
\* most, those of the login that started it
LoadCommitted(e) ==
    /\ e.op \in {"commit", "handleGuestLogin"}
    /\ Tags(e) \subseteq {"handleCredentialResponse", "handleGuestLogin", "load"}
    /\ Loads(e) # {}
    /\ e.applied[Len(e.applied)].by = "load"
    /\ \A i, j \in Loads(e) : e.applied[i].src = e.applied[j].src

\* the identity and the stored blob that load read
LoadSrc(e) == e.applied[Len(e.applied)].src[1]

\* C1: at most one provider send call is outstanding, and handleSendMessage
\* invoked while the in-flight flag is set, with blank input or with no active
\* session changes no session, not the active id, the flag or the live
\* context, queues nothing and starts no provider call.
C1_SingleFlight ==
    [][ /\ Cardinality(pending') <= 1
        /\ ( /\ ev'.op = "handleSendMessage"
             /\ (isLoading \/ Trim(ev'.arg) = "" \/ currentSessionId = Null) )
           => UNCHANGED <<sessions, currentSessionId, isLoading, chatSession, pending, queued>>
      ]_vars

\* a submission was refused because a turn of another session is in flight,
\* with fresh ids left for the messages it would have appended
C1_Witness ==
    /\ ev.op = "handleSendMessage"
    /\ Trim(ev.arg) # ""
    /\ currentSessionId # Null
    /\ isLoading
    /\ nextId <= MaxFresh
    /\ \E p \in pending : p.sid # currentSessionId /\ p.sid \in SessionIds(sessions)

\* C2: when the result of a turn is committed after the active session
\* changed (by selections or creations), the placeholder of the turn is
\* resolved in the session the turn was submitted in, and no message of any
\* other session changes.
C2_ResolvedInOrigin ==
    [][ \A r \in Results(ev') :
          ( /\ Tags(ev') \subseteq {"resolve", "onSelectSession", "createNewSession"}
            /\ currentSessionId # r.p.sid )
          => \A a \in 1..Len(sessions) : \E b \in 1..Len(sessions') :
                /\ sessions'[b].id = sessions[a].id
                /\ IF sessions[a].id # r.p.sid
                   THEN sessions'[b] = sessions[a]
                   ELSE /\ Len(sessions'[b].messages) = Len(sessions[a].messages)
                        /\ \A k \in 1..Len(sessions[a].messages) :
                             IF sessions[a].messages[k].id = r.p.mid
                             THEN sessions'[b].messages[k].isThinking = Some(FALSE)
                             ELSE sessions'[b].messages[k] = sessions[a].messages[k]
      ]_vars

\* the result of a turn was committed while a session created after the
\* submission was active, and its placeholder is resolved
C2_Witness ==
    /\ ev.op = "commit"
    /\ currentSessionId = uuidv4(2, 1)
    /\ \E r \in Results(ev) :
          /\ r.p.mid = uuidv4(1, 2)
          /\ ev.cur # r.p.sid
          /\ currentSessionId # r.p.sid
          /\ r.p.sid \in SessionIds(sessions)
          /\ \E k \in 1..Len(FindSession(sessions, r.p.sid).messages) :
                LET m == FindSession(sessions, r.p.sid).messages[k]
                IN m.id = r.p.mid /\ m.isThinking = Some(FALSE)

\* C3: every accepted submission is eventually followed by the in-flight flag
\* being cleared, whatever selections, creations, deletions or logouts happen
\* in between; and whenever the flag is clear, a submission of a text that is
\* not blank with a session active is accepted: it sets the flag and starts a
\* provider call for the active session.
C3_FlagCleared ==
    /\ isLoading ~> ~isLoading
    /\ [][ ( /\ ev'.op = "handleSendMessage"
              /\ ~isLoading
              /\ Trim(ev'.arg) # ""
              /\ currentSessionId # Null )
            => /\ isLoading'
               /\ \E p \in pending' \ pending :
                     p.sid = currentSessionId /\ p.text = Trim(ev'.arg)
          ]_vars

\* the first turn was answered and its flag cleared, and a second turn has
\* been accepted
C3_Witness ==
    /\ ev.op = "handleSendMessage"
    /\ isLoading
    /\ \E p \in pending : p.mid = uuidv4(2, 2) /\ p.sid = currentSessionId
    /\ \E i \in 1..Len(sessions) : \E k \in 1..Len(sessions[i].messages) :
          /\ sessions[i].messages[k].id = uuidv4(1, 2)
          /\ sessions[i].messages[k].isThinking = Some(FALSE)

AllMessages(ss) == UNION {{ss[i].messages[k] : k \in 1..Len(ss[i].messages)} : i \in 1..Len(ss)}

\* C4: the session data persisted for an identity never contains a message
\* with isThinking = true.
C4_PersistedNeverThinking ==
    \A key \in StorageKeys : \A m \in AllMessages(storage[key].val) : ~IsThinking(m)

\* C5: while a turn is awaiting its response the live conversation context is
\* not replaced, so the response arrives on the context that is still live.
C5_ContextKeptWhileAwaiting ==
    \A p \in pending : p.onLive

\* C6 as claimed: lastUpdated of a session changes only in a step that
\* commits the result of a turn.
C6_LastUpdatedOnlyOnCompletion ==
    [][ \A i \in 1..Len(sessions), j \in 1..Len(sessions') :
            (sessions[i].id = sessions'[j].id
                /\ sessions[i].lastUpdated # sessions'[j].lastUpdated)
            => Results(ev') # {}
      ]_vars

\* C6, amended: in a step that commits no load, lastUpdated of a session
\* changes only when a turn is accepted for submission in that session, the
\* active one; no other operation changes it, the commit of a turn result
\* included; and a session loaded from storage has the lastUpdated that was
\* stored.
C6_LastUpdatedOnlyOnSubmit ==
    [][ /\ \A i \in 1..Len(sessions), j \in 1..Len(sessions') :
            (sessions[i].id = sessions'[j].id
                /\ sessions[i].lastUpdated # sessions'[j].lastUpdated
                /\ Loads(ev') = {})
            => /\ ev'.op = "handleSendMessage"
               /\ sessions[i].id = currentSessionId
               /\ ~isLoading /\ isLoading'
        /\ (LoadCommitted(ev') /\ LoadSrc(ev').raw.kind = "json")
            => \A i \in 1..Len(LoadSrc(ev').raw.val), j \in 1..Len(sessions') :
                 LoadSrc(ev').raw.val[i].id = sessions'[j].id
                 => LoadSrc(ev').raw.val[i].lastUpdated = sessions'[j].lastUpdated
      ]_vars

\* a turn was submitted in a session created earlier and moved its lastUpdated
C6_Witness ==
    /\ ev.op = "handleSendMessage"
    /\ isLoading
    /\ \E i \in 1..Len(sessions) :
          /\ sessions[i].id = currentSessionId
          /\ sessions[i].lastUpdated > sessions[i].createdAt
          /\ \E p \in pending : p.sid = sessions[i].id

\* the load effect of a login has not run yet, or has queued updates that
\* are not committed yet
LoadQueued == effects.load \/ \E i \in 1..Len(queued) : queued[i].by = "load"

\* C7: once the sessions of an identity are loaded the active id names
\* exactly one session of the list; it is none only while logged out or
\* before the load is committed.
C7_ActiveInList ==
    /\ currentSessionId # Null
        => Cardinality({i \in 1..Len(sessions) : sessions[i].id = currentSessionId}) = 1
    /\ currentSessionId = Null => (~LoggedIn \/ LoadQueued)

\* C8: a deleteSession of the only remaining session, in a step that commits
\* no update of the load effect, leaves exactly one session, a fresh default
\* one that is active; no delete leaves the list empty.
C8_DeleteLastRecreates ==
    [][ ev'.op = "deleteSession"
        => /\ Len(sessions') >= 1
           /\ (Len(sessions) = 1 /\ sessions[1].id = ev'.arg /\ Loads(ev') = {})
               => /\ Len(sessions') = 1
                  /\ sessions'[1].id # sessions[1].id
                  /\ sessions'[1].title = "New Search"
                  /\ Len(sessions'[1].messages) = 1
                  /\ sessions'[1].messages[1].id = "welcome"
                  /\ currentSessionId' = sessions'[1].id
      ]_vars

\* C9: a deleteSession(id) that commits its own updates removes exactly the
\* session with that id; if it was active and sessions remain, the first
\* remaining one becomes active and the context is resumed from its messages;
\* if it was not active, the active id and the live context stay as they are.
C9_DeleteSession ==
    [][ Own(ev', "deleteSession")
        => LET rest == SelectSeq(sessions, LAMBDA x : x.id # ev'.arg)
           IN /\ rest # <<>> => sessions' = rest
              /\ (currentSessionId = ev'.arg /\ rest # <<>>)
                  => /\ currentSessionId' = rest[1].id
                     /\ chatSession'.live
                     /\ chatSession'.history = validHistory(rest[1].messages)
                     /\ \A p \in pending' : ~p.onLive
              /\ currentSessionId # ev'.arg
                  => UNCHANGED <<currentSessionId, chatSession, pending>>
      ]_vars

\* the active session was deleted and the context resumed from a session with a turn
C9_Witness ==
    /\ Own(ev, "deleteSession")
    /\ ev.arg = ev.cur
    /\ ev.n >= 2
    /\ currentSessionId = sessions[1].id
    /\ chatSession.history # <<>>

\* C10: the commit of a load from a raw value that is null, unparsable or an
\* empty list, with no session in memory, yields exactly one session, titled
\* "New Search" with the welcome message as its only message, which is
\* active, and a fresh context.
C10_LoadDefault ==
    [][ ( /\ LoadCommitted(ev')
          /\ sessions = <<>>
          /\ \/ LoadSrc(ev').raw.kind \in {"null", "bad"}
             \/ LoadSrc(ev').raw.val = <<>> )
        => /\ Len(sessions') = 1
           /\ sessions'[1].title = "New Search"
           /\ Len(sessions'[1].messages) = 1
           /\ sessions'[1].messages[1].id = "welcome"
           /\ currentSessionId' = sessions'[1].id
           /\ chatSession'.live
           /\ chatSession'.history = <<>>
      ]_vars

\* a damaged blob was loaded
C10_Witness ==
    /\ LoadCommitted(ev)
    /\ LoadSrc(ev).raw.kind = "bad"
    /\ Len(sessions) = 1
    /\ currentSessionId = sessions[1].id

\* C11: the commit of a load of a stored list with at least one session makes
\* active a session whose lastUpdated is maximal among the loaded ones, the
\* list in memory holds exactly the loaded sessions, and the live context is
\* one resumed from the messages of the active session (no call in flight is
\* on it).
C11_LoadSelectsMostRecent ==
    [][ ( /\ LoadCommitted(ev')
          /\ LoadSrc(ev').raw.kind = "json"
          /\ Len(LoadSrc(ev').raw.val) >= 1 )
        => LET loaded == LoadSrc(ev').raw.val
           IN /\ Len(sessions') = Len(loaded)
              /\ {sessions'[i] : i \in 1..Len(sessions')} = {loaded[i] : i \in 1..Len(loaded)}
              /\ currentSessionId' \in SessionIds(loaded)
              /\ \A i \in 1..Len(loaded) :
                    FindSession(loaded, currentSessionId').lastUpdated >= loaded[i].lastUpdated
              /\ chatSession'.live
              /\ chatSession'.history =
                    validHistory(FindSession(sessions', currentSessionId').messages)
              /\ \A p \in pending' : ~p.onLive
      ]_vars

\* a list was loaded whose most recent session was not stored first, and the
\* context was resumed from its turn
C11_Witness ==
    /\ LoadCommitted(ev)
    /\ LoadSrc(ev).raw.kind = "json"
    /\ Len(LoadSrc(ev).raw.val) >= 2
    /\ LoadSrc(ev).raw.val[1].id # currentSessionId
    /\ LoadSrc(ev).raw.val[1].lastUpdated < FindSession(sessions, currentSessionId).lastUpdated
    /\ chatSession.history # <<>>

\* the messages of role user in a message list
UserTurns(msgs) == {k \in 1..Len(msgs) : msgs[k].role = "user"}

\* C12: the title of a session is set by the first user turn accepted in it,
\* to the trimmed input text when that has at most 30 characters and to its
\* first 30 characters followed by "..." otherwise, and changes at no other
\* step: not at a later turn of the session, not at an operation on another
\* session; the commit of a load gives each session the title that was
\* stored.
C12_TitleSetByFirstTurn ==
    [][ /\ \A i \in 1..Len(sessions), j \in 1..Len(sessions') :
            (sessions[i].id = sessions'[j].id /\ Loads(ev') = {})
            => LET text == Trim(ev'.arg)
                   firstTurn == /\ ev'.op = "handleSendMessage"
                                /\ ~isLoading /\ isLoading'
                                /\ sessions[i].id = currentSessionId
                                /\ UserTurns(sessions[i].messages) = {}
               IN IF firstTurn
                  THEN sessions'[j].title =
                          (IF Len(text) <= 30 THEN text
                           ELSE SubSeq(text, 1, 30) \o "...")
                  ELSE sessions'[j].title = sessions[i].title
        /\ (LoadCommitted(ev') /\ LoadSrc(ev').raw.kind = "json")
            => \A i \in 1..Len(LoadSrc(ev').raw.val), j \in 1..Len(sessions') :
                 LoadSrc(ev').raw.val[i].id = sessions'[j].id
                 => LoadSrc(ev').raw.val[i].title = sessions'[j].title
      ]_vars

\* a session was titled with a truncated text by its first turn and a second
\* turn with another text was accepted in it
C12_Witness ==
    /\ ev.op = "handleSendMessage"
    /\ isLoading
    /\ \E i \in 1..Len(sessions) :
          /\ sessions[i].id = currentSessionId
          /\ Cardinality(UserTurns(sessions[i].messages)) = 2
          /\ Len(sessions[i].title) = 33
          /\ sessions[i].title # Trim(ev.arg)
          /\ Len(Trim(ev.arg)) = 30

\* C13: for a session that stays in the list, every step keeps each existing
\* message at its index, new messages come only after them, and a message
\* changes only when the result of its turn is committed: it was an
\* isThinking placeholder, it keeps its id and role, its isThinking becomes
\* false, and that step adds no message and removes none.
C13_AppendOnly ==
    [][ \A i \in 1..Len(sessions), j \in 1..Len(sessions') :
            sessions[i].id = sessions'[j].id
            => LET old == sessions[i].messages
                   new == sessions'[j].messages
               IN /\ Len(new) >= Len(old)
                  /\ \A k \in 1..Len(old) :
                        \/ new[k] = old[k]
                        \/ /\ \E r \in Results(ev') : r.p.mid = old[k].id
                           /\ IsThinking(old[k])
                           /\ new[k].id = old[k].id
                           /\ new[k].role = old[k].role
                           /\ new[k].isThinking = Some(FALSE)
                           /\ Len(new) = Len(old)
      ]_vars

\* a placeholder was resolved in place with the provider's answer and places
C13_Witness ==
    /\ ev.op = "commit"
    /\ \E r \in Results(ev) : \E i \in 1..Len(sessions) :
          /\ sessions[i].id = r.p.sid
          /\ Len(sessions[i].messages) = 3
          /\ sessions[i].messages[3].id = r.p.mid
          /\ sessions[i].messages[3].isThinking = Some(FALSE)
          /\ sessions[i].messages[3].text = "ok"
          /\ sessions[i].messages[3].places # Some(<<>>)
          /\ sessions[i].messages[2].role = "user"

\* C14: an accepted submission that commits its own updates appends exactly
\* two messages to the end of the active session, a user message with the
\* trimmed input text and then a model placeholder with isThinking = true and
\* empty text, and leaves the messages of every other session as they were.
C14_SubmitAppendsTwo ==
    [][ ( /\ Own(ev', "handleSendMessage")
          /\ ~isLoading
          /\ Trim(ev'.arg) # ""
          /\ currentSessionId # Null
          /\ currentSessionId \in SessionIds(sessions) )
        => /\ Len(sessions') = Len(sessions)
           /\ \A i \in 1..Len(sessions) :
                LET old == sessions[i].messages
                    new == sessions'[i].messages
                IN /\ sessions'[i].id = sessions[i].id
                   /\ IF sessions[i].id = currentSessionId
                      THEN /\ Len(new) = Len(old) + 2
                           /\ SubSeq(new, 1, Len(old)) = old
                           /\ new[Len(old) + 1].role = "user"
                           /\ new[Len(old) + 1].text = Trim(ev'.arg)
                           /\ new[Len(old) + 1].isThinking # Some(TRUE)
                           /\ new[Len(old) + 2].role = "model"
                           /\ new[Len(old) + 2].isThinking = Some(TRUE)
                           /\ new[Len(old) + 2].text = ""
                      ELSE new = old
      ]_vars

\* a turn was accepted in the active session while the list held another session
C14_Witness ==
    /\ Own(ev, "handleSendMessage")
    /\ isLoading
    /\ Trim(ev.arg) # ev.arg
    /\ Len(sessions) >= 2
    /\ \E p \in pending :
          /\ p.sid = currentSessionId
          /\ p.text = Trim(ev.arg)
          /\ LET msgs == FindSession(sessions, currentSessionId).messages
             IN /\ msgs[Len(msgs)].id = p.mid
                /\ IsThinking(msgs[Len(msgs)])
                /\ msgs[Len(msgs) - 1].text = p.text

\* C15: when the provider call of a turn rejects, sendMessageToGemini settles
\* with the apology text and an empty place list; the commit of that result
\* leaves the placeholder with isThinking = false, the apology text and an
\* empty place list and clears the flag, and no message ever gets the text
\* of the error branch of handleSendMessage.
C15_ProviderErrorAbsorbed ==
    [][ /\ (ev'.op = "resolve" /\ ev'.arg.rejects)
            => LET u == queued'[Len(queued') - 1]
               IN /\ u.op = "applyTurnResult"
                  /\ u.val.p.mid = ev'.arg.mid
                  /\ u.val.res.text = "I apologize, but I am unable to access the property database at this moment. Please try again shortly."
                  /\ u.val.res.places = <<>>
        /\ \A r \in Results(ev') :
             Tags(ev') = {"resolve"}
             => /\ ~isLoading'
                /\ \A i \in 1..Len(sessions') : \A k \in 1..Len(sessions'[i].messages) :
                     LET m == sessions'[i].messages[k]
                     IN (sessions'[i].id = r.p.sid /\ m.id = r.p.mid)
                         => /\ m.isThinking = Some(FALSE)
                            /\ m.text = r.res.text
                            /\ m.places = Some(r.res.places)
        /\ \A m \in AllMessages(sessions') : m.text # "Connection error. Please try again."
      ]_vars

\* the provider call of a turn rejected and its placeholder carries the apology
C15_Witness ==
    /\ ev.op = "commit"
    /\ \E r \in Results(ev) : \E i \in 1..Len(sessions) : \E k \in 1..Len(sessions[i].messages) :
          /\ r.res.text = ApologyText
          /\ sessions[i].id = r.p.sid
          /\ sessions[i].messages[k].id = r.p.mid
          /\ sessions[i].messages[k].text = ApologyText
          /\ sessions[i].messages[k].isThinking = Some(FALSE)

\* C16: every step that commits the updates of a selection, of a deletion, of
\* a creation or of a load and after which another session is active than
\* before ends with a live context that was created for that session: its
\* history is what resumeChat keeps of the session's messages (nothing, for a
\* session just created), and no call in flight is on it.
C16_ContextFollowsActive ==
    [][ ( /\ currentSessionId' # currentSessionId
          /\ currentSessionId' # Null
          /\ \/ Own(ev', "onSelectSession") \/ Own(ev', "deleteSession")
             \/ Own(ev', "createNewSession") \/ LoadCommitted(ev') )
        => /\ currentSessionId' \in SessionIds(sessions')
           /\ chatSession'.live
           /\ chatSession'.history =
                 validHistory(FindSession(sessions', currentSessionId').messages)
           /\ (ev'.op = "createNewSession" => chatSession'.history = <<>>)
           /\ \A p \in pending' : ~p.onLive
      ]_vars

\* another session was selected and the context carries its earlier turn
C16_Witness ==
    /\ Own(ev, "onSelectSession")
    /\ ev.cur # ev.arg
    /\ currentSessionId = ev.arg
    /\ chatSession.history # <<>>
    /\ chatSession.history = validHistory(FindSession(sessions, currentSessionId).messages)

\* C17: selecting the session that is already active, or an id that is not in
\* the list, in a step that commits no update of another handler, leaves the
\* session list, the active id, the live context and the calls pending on it
\* as they were.
C17_SelectActiveNoOp ==
    [][ ( /\ Own(ev', "onSelectSession")
          /\ (ev'.arg = currentSessionId \/ ev'.arg \notin SessionIds(sessions)) )
        => UNCHANGED <<sessions, currentSessionId, chatSession, pending>>
      ]_vars

\* C18 as claimed: after every step that changes the session list in memory
\* and leaves an identity selected, the blob stored under the key of that
\* identity is the serialization of the list.
C18_StoredEqualsMemory ==
    [][ (LoggedIn' /\ sessions' # sessions)
        => storage'[StorageKey(user', isGuest')] = JSONstringify(sessions')
      ]_vars

\* C18, amended: whenever an identity is selected and no effect of a commit
\* is waiting to run, the blob stored under the key of that identity is the
\* serialization of the session list in memory; and the task that runs the
\* effects that wait makes it so.
C18_StoredEqualsMemoryAtRest ==
    /\ [](LoggedIn /\ effects = NoEffects
            => storage[StorageKey(user, isGuest)] = JSONstringify(sessions))
    /\ [][ (ev'.op = "effects" /\ LoggedIn /\ effects.persist)
            => storage'[StorageKey(user, isGuest)] = JSONstringify(sessions)
          ]_vars

\* the answer of a turn was committed outside of an event, the persist effect
\* ran in its own task, and the stored list holds the resolved message
C18_Witness ==
    /\ ev.op = "effects"
    /\ LoggedIn
    /\ effects = NoEffects
    /\ ~isLoading
    /\ \E i \in 1..Len(sessions) : \E k \in 1..Len(sessions[i].messages) :
          /\ sessions[i].messages[k].id = uuidv4(1, 2)
          /\ sessions[i].messages[k].isThinking = Some(FALSE)
    /\ storage[StorageKey(user, isGuest)].kind = "json"
    /\ storage[StorageKey(user, isGuest)].val = sessions

\* the stored blobs once the effects of an earlier commit that still wait
\* have run (the blobs as they are when none waits)
StoredOnceEffectsRan ==
    PassiveEffects(effects, Rendered, storage, chatSession, pending, "", <<0, 0>>).storage

\* one with empty history.
C20_CreateSession ==
    [][ Own(ev', "createNewSession")
        => /\ Len(sessions') = Len(sessions) + 1
           /\ sessions'[1].id \notin SessionIds(sessions)
           /\ sessions'[1].title = "New Search"
           /\ Len(sessions'[1].messages) = 1
           /\ sessions'[1].messages[1].id = "welcome"
           /\ sessions'[1].messages[1].role = "model"
           /\ Tail(sessions') = sessions
           /\ currentSessionId' = sessions'[1].id
           /\ chatSession'.live
           /\ chatSession'.history = <<>>
           /\ \A p \in pending' : ~p.onLive
      ]_vars

\* a session was created while the list held a session with a completed turn
C20_Witness ==
    /\ Own(ev, "createNewSession")
    /\ ev.n >= 1
    /\ Len(sessions) = ev.n + 1
    /\ currentSessionId = sessions[1].id
    /\ currentSessionId # ev.cur
    /\ Len(sessions[2].messages) >= 3
    /\ chatSession.history = <<>>

\* a chunk the normalizer accepts: a maps payload with a non-empty title and
\* a non-empty uri or googleMapsUri
Accepted(chunk) ==
    /\ chunk.maps # <<>>
    /\ chunk.maps[1].title # ""
    /\ (chunk.maps[1].uri # "" \/ chunk.maps[1].googleMapsUri # "")

\* the index of the first accepted chunk with a title
FirstAccepted(chunks, title) ==
    CHOOSE i \in 1..Len(chunks) :
        /\ Accepted(chunks[i]) /\ chunks[i].maps[1].title = title
        /\ \A j \in 1..(i - 1) : ~(Accepted(chunks[j]) /\ chunks[j].maps[1].title = title)

\* C21: the normalized place list has no two records with the same title,
\* has a record for every title of an accepted chunk, the record of a title
\* is the one of the first accepted chunk with that title, and the records
\* are in the order of those first chunks.
C21_DedupFirstOccurrence ==
    ev.op = "return"
    => LET chunks == ev.arg
           out == ev.ret.places
           titles == {chunks[i].maps[1].title : i \in {k \in 1..Len(chunks) : Accepted(chunks[k])}}
       IN /\ \A j, k \in 1..Len(out) : out[j].title = out[k].title => j = k
          /\ {out[j].title : j \in 1..Len(out)} = titles
          /\ \A j \in 1..Len(out) :
                LET first == chunks[FirstAccepted(chunks, out[j].title)].maps[1]
                IN out[j].uri = (IF first.uri # "" THEN first.uri ELSE first.googleMapsUri)
          /\ \A j, k \in 1..Len(out) :
                j < k => FirstAccepted(chunks, out[j].title) < FirstAccepted(chunks, out[k].title)

\* chunks A/u1, A/u2, B/u3 were normalized to A/u1, B/u3
C21_Witness ==
    /\ ev.op = "return"
    /\ ev.arg = <<MapsChunk("A", "u1", ""), MapsChunk("A", "u2", ""), MapsChunk("B", "u3", "")>>
    /\ Len(ev.ret.places) = 2
    /\ ev.ret.places[1].title = "A" /\ ev.ret.places[1].uri = "u1"
    /\ ev.ret.places[2].title = "B" /\ ev.ret.places[2].uri = "u3"

\* C22: the call returns normally with the provider's text whatever the
\* chunks are; every record of the place list has the title of an accepted
\* chunk and that chunk's uri (or its googleMapsUri when the uri is empty),
\* so a chunk without maps payload, without title or without both uris gives
\* no record; a list without an accepted chunk, the empty one included,
\* gives the empty place list.
C22_RejectedChunksIgnored ==
    ev.op = "return"
    => LET chunks == ev.arg
           out == ev.ret.places
       IN /\ ~ev.ret.threw
          /\ ev.ret.text = "ok"
          /\ \A j \in 1..Len(out) :
                /\ out[j].title # ""
                /\ out[j].uri # ""
                /\ \E i \in 1..Len(chunks) :
                      /\ Accepted(chunks[i])
                      /\ chunks[i].maps[1].title = out[j].title
                      /\ out[j].uri \in {chunks[i].maps[1].uri, chunks[i].maps[1].googleMapsUri}
          /\ Len(out) <= Cardinality({i \in 1..Len(chunks) : Accepted(chunks[i])})
          /\ (\A i \in 1..Len(chunks) : ~Accepted(chunks[i])) => out = <<>>

\* a chunk without maps payload and one without uris were passed over and
\* the one complete chunk after them gave the only record
C22_Witness ==
    /\ ev.op = "return"
    /\ ev.arg = <<WebChunk, MapsChunk("A", "", ""), MapsChunk("B", "u3", "")>>
    /\ Len(ev.ret.places) = 1
    /\ ev.ret.places[1].title = "B"
    /\ ~ev.ret.threw

\* C23: the history the resumed context is seeded with has one entry for
\* every message that is neither an isThinking placeholder nor has the id
\* "welcome", in the order of those messages, each entry the role and text of
\* its message; it has no other entry.
C23_SeedHistory ==
    ev.op = "return"
    => LET msgs == ev.arg
           out == chatSession.history
           kept == {i \in 1..Len(msgs) : msgs[i].isThinking # <<TRUE>> /\ msgs[i].id # "welcome"}
           pos(i) == Cardinality({k \in kept : k <= i})
       IN /\ chatSession.live
          /\ Len(out) = Cardinality(kept)
          /\ \A i \in kept : out[pos(i)] = [role |-> msgs[i].role, text |-> msgs[i].text]

\* a history with the welcome message, a question, its answer and a
\* placeholder seeded the context with the question and the answer
C23_Witness ==
    /\ ev.op = "return"
    /\ Len(ev.arg) = 3
    /\ ev.arg[1] = WelcomeMsg
    /\ ev.arg[2].role = "user"
    /\ IsThinking(ev.arg[3])
    /\ ev.arg[3].id # WelcomeId
    /\ chatSession.history = <<[role |-> "user", text |-> ev.arg[2].text]>>

\* C24: whenever no turn is in flight, no session of the list holds a message
\* with isThinking = true: every placeholder was resolved when its call
\* returned, also across a logout and a login of the same identity.
C24_NoPlaceholderAtRest ==
    (pending = {} /\ ~isLoading)
        => \A m \in AllMessages(sessions) : ~IsThinking(m)

\* C25: whenever no turn is in flight and a session is active, the history of
\* the live context is the (role, text) sequence of the active session's
\* messages without the welcome message and the placeholders.
C25_ContextMatchesActive ==
    (pending = {} /\ ~isLoading /\ queued = <<>>
            /\ currentSessionId \in SessionIds(sessions))
        => chatSession.history =
              validHistory(FindSession(sessions, currentSessionId).messages)

\* C26: when the result of a turn is committed and the session the turn was
\* submitted in is no longer in the list, the list stays exactly as it is (no
\* message changes, the session does not come back), the active id stays,
\* and the in-flight flag is cleared.
C26_ResultOfDeletedDiscarded ==
    [][ \A r \in Results(ev') :
          (Tags(ev') = {"resolve"} /\ r.p.sid \notin SessionIds(sessions))
          => /\ sessions' = sessions
             /\ currentSessionId' = currentSessionId
             /\ ~isLoading'
      ]_vars

\* the result of a turn was committed after its session had been deleted: the
\* session is in no list, in memory or stored, and another session is active
C26_Witness ==
    /\ ev.op = "commit"
    /\ LoggedIn
    /\ ~isLoading
    /\ currentSessionId \in SessionIds(sessions)
    /\ \E r \in Results(ev) :
          /\ r.p.sid \notin SessionIds(sessions)
          /\ \A key \in StorageKeys : r.p.sid \notin SessionIds(storage[key].val)

\* C27: in every state with an active session there is a live chat session,
\* and every provider call was made on a chat session that existed when
\* handleSendMessage ran, never on one that sendMessageToGemini had to create.
C27_ActiveImpliesContext ==
    [][ /\ currentSessionId' # Null => chatSession'.live
        /\ \A p \in pending' : ~p.noChat
        /\ (ev'.op = "handleSendMessage" /\ pending' # pending) => chatSession.live
      ]_vars

\* a turn was submitted on the chat session that a load had installed
C27_Witness ==
    /\ ev.op = "handleSendMessage"
    /\ currentSessionId # Null
    /\ chatSession.live
    /\ \E p \in pending : p.onLive /\ ~p.noChat /\ p.sid = currentSessionId

\* C28: no session is in the stored lists of two identities; a session comes
\* into the stored list of an identity only while that identity is the
\* selected one (or was the selected one of the last render, whose persist
\* effect the step runs); the list in memory holds no session stored for another
\* identity; and when the result of a turn is committed while the session of
\* the turn is not among the sessions of the selected identity, no session in
\* memory and no stored list changes.
C28_IdentityIsolation ==
    [][ LET keyNow == IF user' # NoUser THEN user'
                      ELSE IF isGuest' THEN "condoscout_guest_sessions" ELSE "<null>"
        IN /\ \A k1, k2 \in StorageKeys :
                k1 # k2 => SessionIds(storage'[k1].val) \cap SessionIds(storage'[k2].val) = {}
           /\ \A k \in StorageKeys :
                \/ SessionIds(storage'[k].val) \subseteq SessionIds(storage[k].val)
                \/ k = keyNow
                \/ effects.persist /\ k = StorageKey(user, isGuest)
           /\ \A k \in StorageKeys :
                k # keyNow => SessionIds(sessions') \cap SessionIds(storage'[k].val) = {}
           /\ \A r \in Results(ev') :
                (Tags(ev') = {"resolve"} /\ r.p.sid \notin SessionIds(sessions))
                => (sessions' = sessions /\ storage' = storage)
      ]_vars

\* the histories resumeChat builds from the sessions of a list, and the empty one
SeedsOf(ss) == {<<>>} \cup {validHistory(ss[i].messages) : i \in 1..Len(ss)}

\* C29: the step that deselects the identity leaves no active session (a
\* step that runs a load effect left waiting by the last commit aside), and a
\* provider call is started only with an identity selected and a session
\* active, on a live chat session; the step that selects an identity
\* replaces the chat session by one seeded from what is stored for that
\* identity (or by an empty one), with no call in flight on it; while an
\* identity is selected the chat session changes only by being replaced with
\* one seeded from a session of the list, or by recording the turn of a call
\* made on it; and no provider call is started with a session of another
\* identity's stored list active and the chat session holding the history
\* seeded from that session's messages.
C29_NoContextCarriedOver ==
    [][ /\ (LoggedIn /\ ~LoggedIn' /\ ~effects.load) => currentSessionId' = Null
        /\ (pending' # pending /\ ev'.op = "handleSendMessage")
            => \A k \in StorageKeys \ {StorageKey(user, isGuest)} :
                 \A i \in 1..Len(storage[k].val) :
                    ~ /\ storage[k].val[i].id = currentSessionId
                      /\ chatSession.history # <<>>
                      /\ chatSession.history = validHistory(storage[k].val[i].messages)
        /\ pending' # pending /\ ev'.op = "handleSendMessage"
            => (LoggedIn /\ currentSessionId # Null /\ chatSession.live)
        /\ ev'.loaded # Undefined
            => /\ chatSession'.live
               /\ chatSession'.history \in SeedsOf(storage[ev'.loaded[1].who].val)
               /\ \A p \in pending' : ~p.onLive
        /\ (LoggedIn /\ LoggedIn' /\ chatSession' # chatSession /\ ev'.loaded = Undefined)
            => \/ chatSession'.history \in SeedsOf(sessions) \cup SeedsOf(sessions')
               \/ /\ ev'.op = "resolve"
                  /\ \E p \in pending : p.onLive /\ p.mid = ev'.arg.mid
                  /\ SubSeq(chatSession'.history, 1, Len(chatSession.history)) = chatSession.history
      ]_vars

\* C30: a login after a logout, with no turn in flight, brings back the
\* stored sessions: the step that selects the identity leaves every session
\* of its stored list in the stored list, and the commit of the load puts
\* exactly the stored sessions, with their ids, titles and messages, into the
\* list in memory and (with the persist effect of that commit) into the
\* stored list.
C30_LogoutLoginRoundTrip ==
    [][ /\ (~LoggedIn /\ ev'.loaded # Undefined /\ pending = {})
            => SessionIds(storage[ev'.loaded[1].who].val)
                  \subseteq SessionIds(storage'[ev'.loaded[1].who].val)
        /\ (LoadCommitted(ev') /\ pending = {} /\ LoadSrc(ev').raw.kind = "json"
                /\ Len(LoadSrc(ev').raw.val) >= 1)
            => /\ Len(sessions') = Len(LoadSrc(ev').raw.val)
               /\ {sessions'[i] : i \in 1..Len(sessions')}
                     = {LoadSrc(ev').raw.val[i] : i \in 1..Len(LoadSrc(ev').raw.val)}
               /\ effects' = NoEffects
                     => storage'[LoadSrc(ev').who] = JSONstringify(sessions')
      ]_vars
====
